---- MODULE Spec2Model ----
(***************************************************************************)
(* Client-side TLS stream adapter (src/src/client.rs): the TlsState        *)
(* machine and the poll_read / poll_write / poll_write_vectored /          *)
(* poll_flush / poll_shutdown handlers with the early-data controller      *)
(* poll_handle_early_data.                                                 *)
(*                                                                         *)
(* One handler call is one action.  A handler is written as an operator    *)
(* from the world at call entry to the set of its possible results, one    *)
(* result per behaviour of the Transport and the Session during the call.  *)
(* Plaintext bytes are natural numbers; the caller writes the bytes        *)
(* 1, 2, 3, ... in order, so reordering, loss and duplication are visible. *)
(* "Delivered" means handed to the Session's record layer: early-data      *)
(* records (wire0) or application-data records (wireN), in that order.     *)
(***************************************************************************)
EXTENDS Integers, Sequences, FiniteSets, TLC

\* total number of distinct plaintext bytes the caller has to write
MaxBytes == 2
\* capacity of the Session's early-data channel (max_early_data_size)
MaxEarly == 2
\* decrypted bytes the peer can have pending for the reader
MaxRx == 1
\* largest remaining capacity of the caller's read buffer
MaxRoom == 1

VARIABLES
    state,      \* TlsState tag: EarlyData, Stream, ReadShutdown, WriteShutdown, FullyShutdown
    pos,        \* EarlyData.0 : replay position
    data,       \* EarlyData.1 : buffered early plaintext
    hs,         \* Session: handshake stage  "hello" -> "finish" -> "done"
    ed,         \* Session: early-data status Disabled / Ready / Accepted / Rejected
    left,       \* Session: bytes the early-data channel still accepts
    cn,         \* Session: number of close_notify alerts queued
    wire0,      \* plaintext sent as early-data (0-RTT) records, in order
    wireN,      \* plaintext sent as application-data records, in order
    replayed,   \* history: bytes the fallback replay loop wrote (line 273)
    late,       \* history: caller bytes accepted by the normal write path (lines 152, 179)
    dropped,    \* history: the EarlyData(pos, data) value overwritten at line 279
    ready,      \* Transport: the next transport interaction makes progress
    rx,         \* decrypted peer bytes available to read
    peerClosed, \* the peer has sent close_notify
    next,       \* caller: next plaintext byte it has to write
    ret,        \* the last call: operation, outcome, count
    path        \* the TlsState tags assigned during the last call, entry first

vars == <<state, pos, data, hs, ed, left, cn, wire0, wireN, replayed, late,
          dropped, ready, rx, peerClosed, next, ret, path>>

States == {"EarlyData", "Stream", "ReadShutdown", "WriteShutdown", "FullyShutdown"}
ErrKinds == {"aborted", "io"}

Min(a, b) == IF a < b THEN a ELSE b
Prefix(s, n) == SubSeq(s, 1, n)
Chunk(from, len) == [i \in 1..len |-> from + i - 1]
IsPrefix(s, t) == Len(s) <= Len(t) /\ s = Prefix(t, Len(s))

----------------------------------------------------------------------------
(* Poll results: ok = Poll::Ready(Ok(n)), pending = Poll::Pending,           *)
(* aborted / io / channel = Poll::Ready(Err(..)) by error kind and origin.   *)

Ok(n, w) == [k |-> "ok", n |-> n, eof |-> FALSE, w |-> w]
Pending(w) == [k |-> "pending", n |-> 0, eof |-> FALSE, w |-> w]
Err(e, w) == [k |-> e, n |-> 0, eof |-> FALSE, w |-> w]
IoErrs(w) == {Err(e, w) : e \in ErrKinds}

----------------------------------------------------------------------------
(* TlsState (crate::common)                                                  *)

readable(s) == s \notin {"ReadShutdown", "FullyShutdown"}
writeable(s) == s \notin {"WriteShutdown", "FullyShutdown"}
shutdown_read(s) ==
    IF s \in {"WriteShutdown", "FullyShutdown"} THEN "FullyShutdown" ELSE "ReadShutdown"
shutdown_write(s) ==
    IF s \in {"ReadShutdown", "FullyShutdown"} THEN "FullyShutdown" ELSE "WriteShutdown"

\* an assignment to the state field
SetState(w, s) == [w EXCEPT !.state = s, !.path = Append(@, s)]

----------------------------------------------------------------------------
(* Session (rustls::ClientConnection)                                        *)

is_handshaking(w) == w.hs # "done"
is_early_data_accepted(w) == w.ed = "Accepted"
\* session.early_data() is Some
early_data(w) == w.hs # "done" /\ w.ed \in {"Ready", "Accepted"}

\* early_data.write(buf) for a non-empty buf: the channel takes what its
\* budget allows, or fails
early_data_write(w, buf) ==
    LET n == Min(w.left, Len(buf))
        t == [w EXCEPT !.touched = TRUE]
    IN  {Ok(n, [t EXCEPT !.left = @ - n, !.wire0 = @ \o Prefix(buf, n)])}
        \cup {Err("channel", t)}

send_close_notify(w) == [w EXCEPT !.cn = @ + 1, !.touched = TRUE]

----------------------------------------------------------------------------
(* Record Bridge (crate::common::Stream) over the Transport                  *)

Touch(w) == [w EXCEPT !.touched = TRUE]

\* one stream.handshake(cx): a stage of progress, would-suspend, or an error
stream_handshake(w) ==
    LET t == Touch(w) IN
    IoErrs(t) \cup
    IF ~t.ready THEN {Pending(t)}
    ELSE {Ok(0, [t EXCEPT !.hs = IF @ = "hello" THEN "finish" ELSE "done",
                          !.ed = e, !.ready = r]) :
            e \in (IF t.ed = "Ready" THEN {"Accepted", "Rejected"} ELSE {t.ed}),
            r \in BOOLEAN}

\* stream.poll_write(cx, buf): a non-empty prefix is accepted, or would-suspend,
\* or an error; nothing is accepted unless a count is returned
stream_poll_write(w, buf) ==
    LET t == Touch(w) IN
    IF Len(buf) = 0 THEN {Ok(0, t)}
    ELSE IoErrs(t) \cup
         IF ~t.ready THEN {Pending(t)}
         ELSE {Ok(n, [t EXCEPT !.wireN = @ \o Prefix(buf, n),
                               !.ready = (n = Len(buf)) /\ r]) :
                 n \in 1..Len(buf), r \in BOOLEAN}

RECURSIVE Concat(_)
Concat(bufs) == IF bufs = <<>> THEN <<>> ELSE Head(bufs) \o Concat(Tail(bufs))

\* stream.poll_write_vectored(cx, bufs)
stream_poll_write_vectored(w, bufs) == stream_poll_write(w, Concat(bufs))

\* stream.poll_flush(cx)
stream_poll_flush(w) ==
    LET t == Touch(w) IN
    IoErrs(t) \cup (IF t.ready THEN {Ok(0, t)} ELSE {Pending(t)})

\* stream.poll_shutdown(cx): the Transport's own half-close
stream_poll_shutdown(w) ==
    LET t == [w EXCEPT !.touched = TRUE, !.delegated = TRUE] IN
    IoErrs(t) \cup (IF t.ready THEN {Ok(0, t)} ELSE {Pending(t)})

\* stream.poll_read(cx, buf) with `room` = buf.remaining(): n bytes are
\* produced and stream.eof is reported or not
stream_poll_read(w, room) ==
    LET t == [w EXCEPT !.touched = TRUE, !.readAt = w.state]
        eofs == IF t.peerClosed THEN BOOLEAN ELSE {FALSE}
        some == {[k |-> "ok", n |-> n, eof |-> e, w |-> [t EXCEPT !.rx = @ - n]] :
                    n \in 1..Min(room, t.rx), e \in eofs}
        none == IF room = 0 \/ (t.rx = 0 /\ t.peerClosed)
                THEN {[k |-> "ok", n |-> 0, eof |-> e, w |-> t] : e \in eofs}
                ELSE {}
        wait == IF room > 0 /\ t.rx = 0 /\ ~t.peerClosed THEN {Pending(t)} ELSE {}
    IN  IoErrs(t) \cup some \cup none \cup wait

----------------------------------------------------------------------------
(* Early-Data Controller: poll_handle_early_data (lines 225-283)             *)

\* bug: the controller runs whatever the state
in_early_data_always(s) == TRUE

\* line 234: if let TlsState::EarlyData(pos, data) = state
in_early_data(s) == s = "EarlyData"

\* bug: the replay ignores the server's answer
needs_replay_always(w) == TRUE

\* line 271: if !stream.session.is_early_data_accepted()
needs_replay(w) == ~is_early_data_accepted(w)

\* line 272: while *pos < data.len()
replay_pending(p, d) == p < Len(d)

\* bug: the replay restarts from the beginning of the buffer
replay_slice_all(p, d) == d

\* line 273: &data[*pos..]
replay_slice(p, d) == SubSeq(d, p + 1, Len(d))

\* line 274: *pos += len
advance_pos(p, len) == p + len

\* bug: the accepted bytes are put in front of the buffer
extend_data_front(d, buf, len) == Prefix(buf, len) \o d

\* line 253: data.extend_from_slice(&buf[..len])
extend_data(d, buf, len) == d \o Prefix(buf, len)

\* lines 241-258: the loop over the caller's chunks; a result ok(n) is the
\* value of `written` after the loop, an error result is the return of line 249
RECURSIVE early_write_loop(_, _, _, _)
early_write_loop(w, bufs, i, written) ==
    IF i > Len(bufs) THEN {Ok(written, w)}
    ELSE IF Len(bufs[i]) = 0 THEN early_write_loop(w, bufs, i + 1, written)
    ELSE UNION {
        IF r.k # "ok" THEN {r}
        ELSE IF r.n = 0 THEN {Ok(written, r.w)}
        ELSE LET w2 == [r.w EXCEPT !.data = extend_data(@, bufs[i], r.n)] IN
             IF r.n < Len(bufs[i]) THEN {Ok(written + r.n, w2)}
             ELSE early_write_loop(w2, bufs, i + 1, written + r.n)
        : r \in early_data_write(w, bufs[i])}

\* lines 266-268: while stream.session.is_handshaking() { ready!(stream.handshake(cx))?; }
RECURSIVE handshake_loop(_)
handshake_loop(w) ==
    IF ~is_handshaking(w) THEN {Ok(0, w)}
    ELSE UNION {IF r.k = "ok" THEN handshake_loop(r.w) ELSE {r} :
                    r \in stream_handshake(w)}

\* lines 272-275: the fallback replay loop
RECURSIVE replay_loop(_)
replay_loop(w) ==
    IF ~replay_pending(w.pos, w.data) THEN {Ok(0, w)}
    ELSE LET slice == replay_slice(w.pos, w.data) IN
         UNION {IF r.k = "ok"
                THEN replay_loop([r.w EXCEPT !.pos = advance_pos(@, r.n),
                                             !.replayed = @ \o Prefix(slice, r.n)])
                ELSE {r} :
                    r \in stream_poll_write(w, slice)}

\* bug: the state is left EarlyData at the end
end_early_data_never(w) == w

\* line 279: *state = TlsState::Stream, which drops EarlyData(pos, data)
end_early_data(w) ==
    SetState([w EXCEPT !.dropped = [set |-> TRUE, pos |-> w.pos, data |-> w.data],
                       !.pos = 0, !.data = <<>>], "Stream")

\* bug: the controller goes on to the handshake after an early-data write
early_write_returns_never(written) == FALSE

\* line 260: if written != 0 { return Poll::Ready(Ok(written)) }
early_write_returns(written) == written # 0

\* lines 265-282
complete_handshake(w) ==
    UNION {IF h.k # "ok" THEN {h}
           ELSE {IF p.k # "ok" THEN p ELSE Ok(0, end_early_data(p.w)) :
                    p \in (IF needs_replay(h.w) THEN replay_loop(h.w) ELSE {Ok(0, h.w)})} :
              h \in handshake_loop(w)}

poll_handle_early_data(w, bufs) ==
    IF ~in_early_data(w.state) THEN {Ok(0, w)}
    ELSE LET first == IF early_data(w) THEN early_write_loop(w, bufs, 1, 0)
                      ELSE {Ok(0, w)}
         IN UNION {IF r.k # "ok" \/ early_write_returns(r.n) THEN {r}
                   ELSE complete_handshake(r.w) :
                      r \in first}

----------------------------------------------------------------------------
(* Stream Facade: the AsyncWrite handlers (lines 129-221)                    *)

\* bug: the write falls through to the normal path after an early-data write
returns_early_never(written) == FALSE

\* lines 147, 174: if written != 0 { return Poll::Ready(Ok(written)) }
returns_early(written) == written # 0

\* the caller's bytes the normal write path accepted
Accepted(r, buf) ==
    IF r.k = "ok" THEN [r EXCEPT !.w.late = @ \o Prefix(buf, r.n)] ELSE r

poll_write(w, buf) ==
    UNION {IF r.k # "ok" \/ returns_early(r.n) THEN {r}
           ELSE {Accepted(x, buf) : x \in stream_poll_write(r.w, buf)} :
              r \in poll_handle_early_data(w, <<buf>>)}

poll_write_vectored(w, bufs) ==
    UNION {IF r.k # "ok" \/ returns_early(r.n) THEN {r}
           ELSE {Accepted(x, Concat(bufs)) : x \in stream_poll_write_vectored(r.w, bufs)} :
              r \in poll_handle_early_data(w, bufs)}

poll_flush(w) ==
    UNION {IF r.k # "ok" THEN {r} ELSE stream_poll_flush(r.w) :
              r \in poll_handle_early_data(w, <<>>)}

\* bug: shutdown does not complete the handshake first
shutdown_flushes_never(s) == FALSE

\* line 207: matches!(self.state, TlsState::EarlyData(..))
shutdown_flushes_first(s) == s = "EarlyData"

\* bug: close_notify is sent on every shutdown call
sends_close_notify_always(s) == TRUE

\* line 212: if self.state.writeable()
sends_close_notify(s) == writeable(s)

poll_shutdown(w) ==
    UNION {IF f.k # "ok" THEN {f}
           ELSE stream_poll_shutdown(
                    IF sends_close_notify(f.w.state)
                    THEN SetState(send_close_notify(f.w), shutdown_write(f.w.state))
                    ELSE f.w) :
              f \in (IF shutdown_flushes_first(w.state) THEN poll_flush(w) ELSE {Ok(0, w)})}

----------------------------------------------------------------------------
(* Stream Facade: the AsyncRead handler (lines 86-120)                       *)

\* bug: only the bridge's eof flag closes the read side
read_closes_eof_only(prev, remaining, eof) == eof

\* line 105: prev == buf.remaining() || stream.eof
read_closes(prev, remaining, eof) == prev = remaining \/ eof

\* bug: an aborted read is passed on like any other error
abort_closes_never(k) == FALSE

\* bug: every read error closes the read side
abort_closes_any(k) == TRUE

\* line 111: err.kind() == io::ErrorKind::ConnectionAborted
abort_closes(k) == k = "aborted"

\* bug: a read after EOF still asks the bridge
read_after_eof_asks(w) == stream_poll_read(w, 1)

\* line 118: TlsState::ReadShutdown | TlsState::FullyShutdown => Poll::Ready(Ok(()))
read_after_eof(w) == {Ok(0, w)}

\* lines 97-117
read_open(w, room) ==
    {IF r.k = "ok"
     THEN (IF read_closes(room, room - r.n, r.eof)
           THEN [r EXCEPT !.w = SetState(@, shutdown_read(@.state))] ELSE r)
     ELSE IF r.k # "pending" /\ abort_closes(r.k)
          THEN [r EXCEPT !.w = SetState(@, shutdown_read(@.state))]
          ELSE r :
        r \in stream_poll_read(w, room)}

\* bug: a read in EarlyData is answered like a read after EOF
read_flushes_never(s) == FALSE

\* line 93: TlsState::EarlyData(..) =>
read_flushes_first(s) == s = "EarlyData"

RECURSIVE poll_read(_, _)
poll_read(w, room) ==
    IF read_flushes_first(w.state)
    THEN UNION {IF f.k = "ok" THEN poll_read(f.w, room) ELSE {f} : f \in poll_flush(w)}
    ELSE IF w.state \in {"Stream", "WriteShutdown"} THEN read_open(w, room)
    ELSE read_after_eof(w)

----------------------------------------------------------------------------
(* The state machine                                                         *)

NoCall == [op |-> "none", k |-> "ok", n |-> 0, room |-> 0, eof |-> FALSE,
           touched |-> FALSE, delegated |-> FALSE, readAt |-> "none"]
NotDropped == [set |-> FALSE, pos |-> 0, data |-> <<>>]

\* TlsStream as the connector hands it over: EarlyData(0, Vec::new()) with the
\* handshake still to run when 0-RTT is offered, Stream after a full handshake
Init ==
    /\ state \in {"EarlyData", "Stream"}
    /\ pos = 0 /\ data = <<>>
    /\ hs = IF state = "EarlyData" THEN "hello" ELSE "done"
    /\ ed = IF state = "EarlyData" THEN "Ready" ELSE "Disabled"
    /\ left \in (IF state = "EarlyData" THEN 1..MaxEarly ELSE {0})
    /\ cn = 0
    /\ wire0 = <<>> /\ wireN = <<>> /\ replayed = <<>> /\ late = <<>>
    /\ dropped = NotDropped
    /\ ready \in BOOLEAN
    /\ rx = 0 /\ peerClosed = FALSE
    /\ next = 1
    /\ ret = NoCall
    /\ path = <<state>>

\* the world at call entry
World ==
    [state |-> state, pos |-> pos, data |-> data, hs |-> hs, ed |-> ed,
     left |-> left, cn |-> cn, wire0 |-> wire0, wireN |-> wireN,
     replayed |-> replayed, late |-> late, dropped |-> dropped, ready |-> ready,
     rx |-> rx, peerClosed |-> peerClosed,
     path |-> <<state>>, touched |-> FALSE, delegated |-> FALSE,
     readAt |-> "none"]

\* the call returns r
Return(op, room, r) ==
    /\ state' = r.w.state /\ pos' = r.w.pos /\ data' = r.w.data
    /\ hs' = r.w.hs /\ ed' = r.w.ed /\ left' = r.w.left /\ cn' = r.w.cn
    /\ wire0' = r.w.wire0 /\ wireN' = r.w.wireN
    /\ replayed' = r.w.replayed /\ late' = r.w.late /\ dropped' = r.w.dropped
    /\ ready' = r.w.ready /\ rx' = r.w.rx /\ peerClosed' = r.w.peerClosed
    /\ path' = r.w.path
    /\ ret' = [op |-> op, k |-> r.k, n |-> r.n, room |-> room, eof |-> r.eof,
               touched |-> r.w.touched, delegated |-> r.w.delegated,
               readAt |-> r.w.readAt]
    /\ next' = IF op \in {"write", "writev"} /\ r.k = "ok" THEN next + r.n ELSE next

Remaining == MaxBytes + 1 - next

PollRead ==
    \E room \in 0..MaxRoom : \E r \in poll_read(World, room) : Return("read", room, r)

PollWrite ==
    \E len \in 0..Remaining : \E r \in poll_write(World, Chunk(next, len)) :
        Return("write", 0, r)

PollWriteVectored ==
    \E l1 \in 0..Remaining : \E l2 \in 0..(Remaining - l1) :
        \E r \in poll_write_vectored(World, <<Chunk(next, l1), Chunk(next + l1, l2)>>) :
            Return("writev", 0, r)

PollFlush == \E r \in poll_flush(World) : Return("flush", 0, r)

PollShutdown == \E r \in poll_shutdown(World) : Return("shutdown", 0, r)

\* the environment: the reactor signals readiness, the peer sends or closes
EnvStep ==
    /\ ret' = NoCall /\ path' = <<state>>
    /\ UNCHANGED <<state, pos, data, hs, ed, left, cn, wire0, wireN, replayed,
                   late, dropped, next>>

Wake == ~ready /\ ready' = TRUE /\ EnvStep /\ UNCHANGED <<rx, peerClosed>>

PeerSend ==
    /\ ~peerClosed /\ rx < MaxRx
    /\ rx' = rx + 1 /\ EnvStep /\ UNCHANGED <<ready, peerClosed>>

PeerClose ==
    /\ ~peerClosed /\ peerClosed' = TRUE /\ EnvStep /\ UNCHANGED <<ready, rx>>

Next ==
    \/ PollRead
    \/ PollWrite
    \/ PollWriteVectored
    \/ PollFlush
    \/ PollShutdown
    \/ Wake
    \/ PeerSend
    \/ PeerClose

Spec == Init /\ [][Next]_vars

\* A caller that writes its input, re-invoking poll_write with the remaining
\* plaintext, and flushes.  The reactor eventually signals readiness, a write
\* attempted on a ready Transport eventually has a prefix accepted, and a
\* flush attempted on a ready Transport eventually completes.
WriteAccepted == PollWrite /\ next' > next
FlushDone == PollFlush /\ ret'.k = "ok"

WriterNext ==
    \/ PollWrite
    \/ PollFlush
    \/ Wake

LiveSpec ==
    /\ Init /\ [][WriterNext]_vars
    /\ WF_vars(Wake) /\ WF_vars(WriteAccepted) /\ WF_vars(FlushDone)

\* A caller that, whatever it wrote, keeps re-invoking poll_flush: the reactor
\* eventually signals readiness and a flush attempted on a ready Transport
\* eventually completes.
FlushSpec ==
    /\ Init /\ [][WriterNext]_vars
    /\ WF_vars(Wake) /\ WF_vars(FlushDone)

----------------------------------------------------------------------------
(* Properties                                                                *)

\* what the peer's application receives: early-data records count only when
\* the server accepted them
PeerView == IF ed = "Accepted" THEN wire0 \o wireN ELSE wireN

Entry == Head(path)
Steps == 1..(Len(path) - 1)
Input == Chunk(1, MaxBytes)

C2_CloseNotifyOnce ==
    /\ cn = IF writeable(state) THEN 0 ELSE 1
    /\ (ret.op = "shutdown" /\ ~writeable(Entry)) =>
          (path = <<state>> /\ ret.delegated)

C2_Witness ==
    /\ ret.op = "shutdown" /\ ~writeable(Entry) /\ ret.k = "pending" /\ cn = 1

\* C3: a poll_read entered in ReadShutdown or FullyShutdown returns success
\* with zero bytes, without touching the Transport or the Session and without
\* changing the state; and no operation leaves FullyShutdown.
C3_ReadAfterEof ==
    /\ (ret.op = "read" /\ ~readable(Entry)) =>
          (ret.k = "ok" /\ ret.n = 0 /\ ~ret.touched /\ path = <<state>>)
    /\ Entry = "FullyShutdown" => state = "FullyShutdown"

C3_Witness ==
    /\ ret.op = "read" /\ Entry = "FullyShutdown" /\ rx > 0 /\ ret.room > 0

\* C4: the half-close flags are monotonic: over every assignment to the state,
\* a closed read side stays closed, a closed write side stays closed,
\* ReadShutdown and WriteShutdown change only to FullyShutdown, FullyShutdown
\* does not change, and FullyShutdown is entered only from ReadShutdown by a
\* poll_shutdown or from WriteShutdown by a poll_read, with the
\* close-notification sent.
C4_HalfCloseMonotonic ==
    /\ \A i \in Steps :
          /\ ~readable(path[i]) => ~readable(path[i + 1])
          /\ ~writeable(path[i]) => ~writeable(path[i + 1])
          /\ path[i] \in {"ReadShutdown", "WriteShutdown"} =>
                path[i + 1] \in {path[i], "FullyShutdown"}
          /\ path[i] = "FullyShutdown" => path[i + 1] = "FullyShutdown"
          /\ (path[i + 1] = "FullyShutdown" /\ path[i] # "FullyShutdown") =>
                \/ path[i] = "ReadShutdown" /\ ret.op = "shutdown"
                \/ path[i] = "WriteShutdown" /\ ret.op = "read"
    /\ state = "FullyShutdown" => cn = 1

C4_Witness == path = <<"ReadShutdown", "FullyShutdown">>

\* C5: every assignment that changes the state away from EarlyData makes it
\* Stream, no assignment makes the state EarlyData again, and the EarlyData
\* value is dropped exactly when the state has left EarlyData.
C5_EarlyDataLeftOnce ==
    /\ \A i \in Steps :
          /\ path[i] = "EarlyData" => path[i + 1] \in {"EarlyData", "Stream"}
          /\ path[i] # "EarlyData" => path[i + 1] # "EarlyData"
    /\ dropped.set => state # "EarlyData"

C5_Witness == path = <<"EarlyData", "Stream", "WriteShutdown">>

\* C6: a poll_read entered in Stream or WriteShutdown that fails with a
\* connection-aborted error closes the read side (Stream to ReadShutdown,
\* WriteShutdown to FullyShutdown) and returns that error; the poll_read that
\* follows it returns success with zero bytes.
C6_AbortedReadCloses ==
    [][/\ (ret'.op = "read" /\ ret'.k = "aborted" /\ state = "Stream") =>
              state' = "ReadShutdown"
       /\ (ret'.op = "read" /\ ret'.k = "aborted" /\ state = "WriteShutdown") =>
              state' = "FullyShutdown"
       /\ (ret.op = "read" /\ ret.k = "aborted" /\ Entry \in {"Stream", "WriteShutdown"}
             /\ ret'.op = "read") =>
              (ret'.k = "ok" /\ ret'.n = 0 /\ state' = state)]_vars

C6_Witness ==
    /\ ret.op = "read" /\ ret.k = "aborted"
    /\ path = <<"WriteShutdown", "FullyShutdown">>

\* C7: a poll_read entered in Stream or WriteShutdown that succeeds with zero
\* new bytes because the peer closed (room in the buffer, nothing left to
\* read) closes the read side, and the poll_read that follows it returns zero
\* bytes at once, never would-suspend.
C7_EofDetected ==
    [][/\ (ret'.op = "read" /\ ret'.k = "ok" /\ ret'.n = 0 /\ ret'.room > 0
             /\ state \in {"Stream", "WriteShutdown"}) =>
              state' = IF state = "Stream" THEN "ReadShutdown" ELSE "FullyShutdown"
       /\ (ret.op = "read" /\ ret.k = "ok" /\ ret.n = 0 /\ ret.room > 0
             /\ Entry \in {"Stream", "WriteShutdown"} /\ ret'.op = "read") =>
              (ret'.k = "ok" /\ ret'.n = 0 /\ ~ret'.touched)]_vars

C7_Witness ==
    /\ ret.op = "read" /\ ret.k = "ok" /\ ret.n = 0 /\ ret.room > 0 /\ ~ret.eof
    /\ peerClosed /\ path = <<"Stream", "ReadShutdown">>

\* C8: when the state has left EarlyData with the early data accepted, the
\* replay position was still 0 and the normal write path carried none of the
\* buffer; the replay wrote something only with the handshake complete and the
\* early data not accepted, and in that case it wrote the whole buffer.
C8_ReplayIffRejected ==
    /\ (dropped.set /\ ed = "Accepted") => (dropped.pos = 0 /\ replayed = <<>>)
    /\ replayed # <<>> => (hs = "done" /\ ed # "Accepted")
    /\ (dropped.set /\ ed # "Accepted") =>
          (replayed = dropped.data /\ dropped.pos = Len(dropped.data))

C8_Witness ==
    /\ state = "Stream" /\ dropped.set /\ ed = "Accepted"
    /\ Len(dropped.data) >= 1 /\ ret.op = "flush" /\ ret.k = "ok"

\* C9 (amended): a caller that repeats poll_write with the remaining
\* plaintext and then re-invokes poll_flush until it completes, over a
\* Transport that accepts a prefix per attempt and becomes ready again after
\* each would-suspend, eventually has the whole input delivered; at every
\* moment the peer holds a prefix of the input, so nothing is reordered,
\* duplicated or lost.
C9_WriteThenFlushDelivers ==
    /\ [](IsPrefix(PeerView, Input))
    /\ <>[](PeerView = Input /\ next = MaxBytes + 1)

C9_Witness ==
    /\ PeerView = Input /\ state = "Stream" /\ dropped.set /\ ed = "Rejected"
    /\ Len(wire0) >= 1 /\ Len(late) >= 1 /\ ret.op = "flush" /\ ret.k = "ok"

\* C9 (as stated): repeated poll_write calls alone deliver the input: once the
\* last poll_write has returned, with every byte of the input accepted, the
\* whole input has been delivered.
C9_WritesAloneDeliver == next = MaxBytes + 1 => PeerView = Input

\* C10: a successful poll_read entered in Stream or WriteShutdown closes the
\* read side only when zero bytes were produced while the buffer had room, or
\* when the bridge reported eof.
C10_ReadClosesOnlyAtEof ==
    (ret.op = "read" /\ ret.k = "ok" /\ Entry \in {"Stream", "WriteShutdown"}
       /\ state # Entry) =>
        ((ret.n = 0 /\ ret.room > 0) \/ ret.eof)

EarlyWrite(r) == r.op \in {"write", "writev"}

\* C11: a poll_write or poll_write_vectored entered in EarlyData that returns
\* an error raised by the early-data channel leaves buffered and position as
\* they were at call entry.
C11_ChannelErrorNoMutation ==
    [][(EarlyWrite(ret') /\ ret'.k = "channel" /\ state = "EarlyData") =>
           (data' = data /\ pos' = pos)]_vars

\* C12: close_notify is never sent while the state is EarlyData: once it has
\* been sent the handshake is complete and the buffered early data has been
\* delivered (accepted as 0-RTT, or replayed to the end of the buffer); a
\* poll_shutdown entered in EarlyData reaches the Transport's shutdown only
\* through Stream, and when its flush suspends or fails it returns that outcome
\* with no close_notify sent and the write side open.
C12_ShutdownFlushesFirst ==
    /\ cn > 0 =>
          /\ state # "EarlyData" /\ hs = "done"
          /\ dropped.set => (ed = "Accepted" \/ dropped.pos = Len(dropped.data))
    /\ (ret.op = "shutdown" /\ Entry = "EarlyData" /\ ret.delegated) =>
          (Len(path) = 3 /\ path[2] = "Stream")
    /\ (ret.op = "shutdown" /\ Entry = "EarlyData" /\ ~ret.delegated) =>
          (ret.k # "ok" /\ cn = 0 /\ writeable(state))

C12_Witness ==
    /\ ret.op = "shutdown" /\ path = <<"EarlyData", "Stream", "WriteShutdown">>
    /\ ed = "Rejected" /\ Len(dropped.data) >= 1 /\ cn = 1

\* C13: the bridge is never asked to read while the state is EarlyData: a
\* poll_read entered in EarlyData reads only after the state has become Stream,
\* and when its flush suspends or fails it returns that outcome with no bytes
\* produced and the read side open.
C13_ReadFlushesFirst ==
    /\ ret.readAt # "EarlyData"
    /\ (ret.op = "read" /\ Entry = "EarlyData" /\ ret.readAt # "none") =>
          (Len(path) >= 2 /\ path[2] = "Stream" /\ ret.readAt = "Stream")
    /\ (ret.op = "read" /\ Entry = "EarlyData" /\ ret.readAt = "none") =>
          (ret.k # "ok" /\ ret.n = 0 /\ readable(state))

C13_Witness ==
    /\ ret.op = "read" /\ Entry = "EarlyData" /\ ret.readAt = "Stream"
    /\ ret.k = "ok" /\ ret.n = 1 /\ Len(dropped.data) >= 1

\* C14: a write entered in EarlyData in which the early-data channel accepted
\* a non-zero number of bytes returns exactly that count, appends exactly
\* those bytes to buffered, leaves position and the state unchanged and hands
\* nothing to the normal write path.
C14_EarlyWriteReturnsCount ==
    [][(EarlyWrite(ret') /\ state = "EarlyData" /\ wire0' # wire0) =>
           LET acc == SubSeq(wire0', Len(wire0) + 1, Len(wire0')) IN
           /\ ret'.k = "ok" /\ ret'.n = Len(acc)
           /\ data' = data \o acc /\ pos' = pos
           /\ state' = "EarlyData" /\ wireN' = wireN /\ late' = late]_vars

\* C15: a call entered in EarlyData that returns would-suspend with the
\* handshake still incomplete leaves the state EarlyData and buffered and
\* position as they were at call entry.
C15_HandshakeSuspendKeeps ==
    [][(ret'.op # "none" /\ ret'.k = "pending" /\ state = "EarlyData" /\ hs' # "done") =>
           (state' = "EarlyData" /\ data' = data /\ pos' = pos)]_vars

C15_Witness ==
    /\ state = "EarlyData" /\ ret.op = "flush" /\ ret.k = "pending"
    /\ hs = "finish" /\ Len(data) >= 1

\* C16: a poll_read entered in Stream or WriteShutdown that ends in
\* would-suspend or in an error other than connection-aborted leaves the
\* state unchanged.
C16_ReadFailureKeepsState ==
    (ret.op = "read" /\ Entry \in {"Stream", "WriteShutdown"}
       /\ ret.k \in {"pending", "io"}) =>
        (path = <<Entry>> /\ state = Entry /\ ret.n = 0)

C16_Witness ==
    /\ ret.op = "read" /\ ret.k = "io" /\ path = <<"WriteShutdown">> /\ rx > 0

\* C17: in every EarlyData state position is at most the length of buffered
\* and the fallback replay has written exactly buffered[0..position]; from one
\* EarlyData state to the next position does not decrease and buffered is
\* extended at its end only.
C17_ReplayBookkeeping ==
    /\ [](state = "EarlyData" =>
            (pos <= Len(data) /\ replayed = Prefix(data, pos)))
    /\ [][(state = "EarlyData" /\ state' = "EarlyData") =>
            (pos' >= pos /\ IsPrefix(data, data'))]_vars

C17_Witness ==
    /\ state = "EarlyData" /\ pos = 1 /\ Len(data) = 2 /\ ret.k = "pending"

\* C18: poll_write, poll_write_vectored and poll_flush assign the state only
\* to leave EarlyData for Stream: entered in any other state they leave it
\* unchanged whatever their outcome, entered in EarlyData they end in
\* EarlyData or Stream.
C18_WritesKeepHalfClose ==
    (EarlyWrite(ret) \/ ret.op = "flush") =>
        /\ Entry # "EarlyData" => path = <<Entry>>
        /\ Entry = "EarlyData" => path \in {<<"EarlyData">>, <<"EarlyData", "Stream">>}

C18_Witness ==
    /\ ret.op = "writev" /\ path = <<"FullyShutdown">> /\ ret.k = "ok" /\ ret.n >= 1

\* C19: from EarlyData, a caller that keeps re-invoking poll_flush eventually
\* gets a completed flush with the state Stream.
C19_FlushReachesStream ==
    (state = "EarlyData") ~> (state = "Stream" /\ ret.op = "flush" /\ ret.k = "ok")

C19_Witness ==
    /\ state = "Stream" /\ ret.op = "flush" /\ ret.k = "ok"
    /\ path = <<"EarlyData", "Stream">> /\ ed = "Rejected" /\ dropped.pos >= 1
====
